---- MODULE Spec2Model ----
(***************************************************************************)
(* Intraday price-level strategy (olegshulyakov/algorithm-trading-system). *)
(*                                                                         *)
(* Two variants of the same algorithm are modelled:                        *)
(*   "quantopian" : src/quantopian/algo/intraday_levels_algorithm.py       *)
(*   "algo"       : src/algo/intraday_levels_algorithm.py                  *)
(*                                                                         *)
(* Money is in whole cents (stop_size 0.05 -> 5, daily_risk 100 -> 10000), *)
(* so every comparison of the source is evaluated exactly; the rounding of *)
(* binary floating point at an exact threshold is outside this model.      *)
(* NaN is the value NaN below; a comparison with NaN is FALSE, as in IEEE. *)
(*                                                                         *)
(* The framework (zipline) is the environment: it calls the handlers, it   *)
(* answers data.history / data.can_trade / portfolio reads, and it fills   *)
(* open orders between two minutes.  One trading day is modelled, from     *)
(* initialize on: before_trading_start, then the minutes, with             *)
(* close_positions once, after the handle_data of its minute.              *)
(*                                                                         *)
(* TrendFactor.compute and the two filter_securities are also evaluated on *)
(* their own, over bounded families of windows: SpecTrend and SpecFilter.  *)
(***************************************************************************)
EXTENDS Integers, Sequences, FiniteSets, TLC

(* ------------------------------ bounds --------------------------------- *)
MaxOpenOrders == 1
MaxBreaks == 2
MaxCents == 4

(* ------------------------- algorithm constants ------------------------- *)
daily_trend_strength == 2
window_length == 15
intraday_trend_fast == 10
intraday_trend_slow == 30
intraday_cents_to_level == 2
stop_size == 5
target_profit == 20
cents_to_market == 2
daily_risk == 10000

position_amount(v) == IF v = "quantopian" THEN 100 ELSE 500

Variants == {"quantopian", "algo"}
Securities == {"s1", "s2"}

NaN == -1
NoLimit == 0

(* ------------------------- environment samples ------------------------- *)
Bars(n, p) == [i \in 1..n |-> p]

\* 30-bar "low" histories, oldest first; data.history(.., 10, ..) is the tail.
LowSamples ==
  { Bars(29, 1000) \o <<1002>>,          \* pinned on the 10.00 level
    Bars(30, 1003),                      \* 3 cents above the level
    <<NaN>> \o Bars(29, 1000),           \* NaN only in the slow window
    Bars(29, 1000) \o <<NaN>> }          \* NaN in the fast window

NoHistory == [can_trade |-> FALSE, low |-> <<>>]
HistorySamples == {NoHistory} \cup {[can_trade |-> TRUE, low |-> w] : w \in LowSamples}

LastSamples == {997, 998, 1022}
PnlSamples == {-10000, 0}
\* portfolio.cash: one cent short of an entry at 10.02, and exactly enough
CashSamples(v) == {1002 * position_amount(v) - 1, 1002 * position_amount(v)}

\* pipeline_output('stock_screener'): the securities that pass the screen (the
\* index) with their long and short streaks
Streaks(l, sh) == [long |-> l, short |-> sh]
ScreenerSamples ==
  { [s \in {"s1"} |-> Streaks(1, 2)],
    [s \in {"s1", "s2"} |-> IF s = "s1" THEN Streaks(2, 1) ELSE Streaks(1, 2)],
    [s \in {"s1", "s2"} |-> IF s = "s1" THEN Streaks(2, 2) ELSE Streaks(1, 1)] }

(* ------------------------------ helpers -------------------------------- *)
RECURSIVE SumTo(_, _)
SumTo(q, n) == IF n = 0 THEN 0 ELSE q[n] + SumTo(q, n - 1)
SeqSum(q) == SumTo(q, Len(q))

SeqMin(q) == CHOOSE x \in {q[i] : i \in 1..Len(q)} : \A j \in 1..Len(q) : x <= q[j]
SeqMax(q) == CHOOSE x \in {q[i] : i \in 1..Len(q)} : \A j \in 1..Len(q) : x >= q[j]

isnan_any(q) == \E i \in 1..Len(q) : q[i] = NaN

\* data.history(security, field, bars, frequency): the newest `bars` bars
history(h, bars) == SubSeq(h.low, Len(h.low) - bars + 1, Len(h.low))

\* a.mean() < b.mean(); a mean over a NaN is NaN and compares FALSE
mean_lt(a, b) ==
  IF isnan_any(a) \/ isnan_any(b) THEN FALSE
  ELSE SeqSum(a) * Len(b) < SeqSum(b) * Len(a)

\* the order in which a set or dict of securities is iterated
iteration == <<"s1", "s2">>

NoPosition == [amount |-> 0, cost_basis |-> 0, last_sale_price |-> 0]
Held(pos) == {s \in Securities : pos[s].amount # 0}

(* ------------------------------ RiskManager ---------------------------- *)
\* RiskManager.get_risk
get_risk(pnl_, previous_day_risk_) == pnl_ - previous_day_risk_

\* variant of can_trade that still trades at a loss of exactly daily_risk
can_trade_at_limit(pnl_, previous_day_risk_) ==
  get_risk(pnl_, previous_day_risk_) >= -daily_risk

\* RiskManager.can_trade
can_trade(pnl_, previous_day_risk_) == get_risk(pnl_, previous_day_risk_) > -daily_risk

(* ------------------------------ LongTrader ----------------------------- *)
\* variant of the loop body without the check that all prices are near the
\* minimum
LongTrader_filter_one_any_spread(h) ==
  IF ~h.can_trade THEN FALSE
  ELSE LET data_history_fast == history(h, intraday_trend_fast)
           data_history_slow == history(h, intraday_trend_slow)
       IN IF isnan_any(data_history_fast) \/ isnan_any(data_history_fast) THEN FALSE
          ELSE IF mean_lt(data_history_fast, data_history_slow) THEN FALSE
          ELSE SeqMin(data_history_fast) % 25 <= intraday_cents_to_level

\* the body of the loop of LongTrader.filter_securities for one security:
\* TRUE iff the security is appended to result_list
LongTrader_filter_one(h) ==
  IF ~h.can_trade THEN FALSE
  ELSE LET data_history_fast == history(h, intraday_trend_fast)
           data_history_slow == history(h, intraday_trend_slow)
       IN IF isnan_any(data_history_fast) \/ isnan_any(data_history_fast) THEN FALSE
          ELSE IF mean_lt(data_history_fast, data_history_slow) THEN FALSE
          ELSE LET min_price == SeqMin(data_history_fast)
                   cents_to_level == min_price % 25
               IN IF cents_to_level > intraday_cents_to_level THEN FALSE
                  ELSE IF SeqMax(data_history_fast) - min_price > intraday_cents_to_level
                       THEN FALSE
                       ELSE TRUE

\* the verdict of the loop body, and the minimum of the 10-bar window, for
\* each answer data can give (evaluated once)
filter_verdict == [h \in HistorySamples |-> LongTrader_filter_one(h)]
fast_min ==
  [h \in HistorySamples |->
     IF h.can_trade THEN SeqMin(history(h, intraday_trend_fast)) ELSE NaN]

\* LongTrader.filter_securities
LongTrader_filter_securities(securities, data) ==
  {s \in securities : filter_verdict[data[s]]}

\* order_target(sid, target, style): the order the framework creates, for the
\* difference between the target and the shares held now
order_target(by, kind, pos, sid, target, limit) ==
  [by |-> by, kind |-> kind, sid |-> sid, target |-> target,
   amount |-> target - pos[sid].amount, limit |-> limit]

\* LongTrader.open: the orders submitted, in iteration order `it`
LongTrader_open(v, by, securities, pos, data, cash_, it) ==
  LET candidates == IF v = "quantopian" THEN securities \ Held(pos) ELSE securities
      passed == LongTrader_filter_securities(candidates, data)
      price(s) == fast_min[data[s]] + cents_to_market
      ordered(s) ==
        /\ s \in passed
        /\ s \notin Held(pos)
        /\ (v = "quantopian" => ~(price(s) * position_amount(v) > cash_))
      todo == SelectSeq(it, ordered)
  IN [i \in 1..Len(todo) |->
        order_target(by, "open", pos, todo[i], position_amount(v), price(todo[i]))]

\* variant of the close condition whose stop comparison is strict
LongTrader_close_one_strict(p) ==
  IF p.amount < 0 THEN FALSE
  ELSE p.last_sale_price < p.cost_basis - stop_size
         \/ p.last_sale_price >= p.cost_basis + target_profit

\* the condition of LongTrader.close for one position
LongTrader_close_one(p) ==
  IF p.amount < 0 THEN FALSE
  ELSE LET stop_price == p.cost_basis - stop_size
           target_price == p.cost_basis + target_profit
       IN p.last_sale_price <= stop_price \/ p.last_sale_price >= target_price

\* LongTrader.close: the orders submitted, in iteration order `it`
LongTrader_close(by, pos, it) ==
  LET closing(s) == s \in Held(pos) /\ LongTrader_close_one(pos[s])
      todo == SelectSeq(it, closing)
  IN [i \in 1..Len(todo) |-> order_target(by, "close", pos, todo[i], 0, NoLimit)]

\* variant of trade that checks the close conditions first
LongTrader_trade_close_first(v, by, ct, securities, pos, data, cash_, it) ==
  LET do_open == (v = "algo") \/ ct
  IN [calls  |-> <<[by |-> by, method |-> "close"]>> \o
                 (IF do_open
                  THEN <<[by |-> by, method |-> "open"],
                         [by |-> by, method |-> "filter_securities"]>>
                  ELSE <<>>),
      orders |-> LongTrader_close(by, pos, it) \o
                 (IF do_open
                  THEN LongTrader_open(v, by, securities, pos, data, cash_, it)
                  ELSE <<>>)]

\* LongTrader.trade: the calls it makes, in order, and the orders they submit.
\* The quantopian variant takes can_trade; the other variant always opens.
LongTrader_trade(v, by, ct, securities, pos, data, cash_, it) ==
  LET do_open == (v = "algo") \/ ct
      opened == IF do_open THEN LongTrader_open(v, by, securities, pos, data, cash_, it)
                ELSE <<>>
      closed == LongTrader_close(by, pos, it)
  IN [calls  |-> (IF do_open
                  THEN <<[by |-> by, method |-> "open"],
                         [by |-> by, method |-> "filter_securities"]>>
                  ELSE <<>>) \o <<[by |-> by, method |-> "close"]>>,
      orders |-> opened \o closed]

\* variant of close_positions that flattens only the positions whose stop or
\* target is reached
close_positions_orders_due(pos, it) == LongTrader_close("close_positions", pos, it)

\* the loop of close_positions: the orders submitted, in iteration order `it`
close_positions_orders(pos, it) ==
  LET todo == SelectSeq(it, LAMBDA s : s \in Held(pos))
  IN [i \in 1..Len(todo) |->
        order_target("close_positions", "close", pos, todo[i], 0, NoLimit)]

(* ------------------------------ framework ------------------------------ *)
\* Position.update of the framework for one filled order
position_update(p, amount, price) ==
  LET total_shares == p.amount + amount
      prev_direction == IF p.amount < 0 THEN -1 ELSE 1
      txn_direction == IF amount < 0 THEN -1 ELSE 1
      cost == IF prev_direction # txn_direction
              THEN (IF (IF amount < 0 THEN -amount ELSE amount)
                       > (IF p.amount < 0 THEN -p.amount ELSE p.amount)
                    THEN price ELSE p.cost_basis)
              ELSE (p.cost_basis * p.amount + amount * price) \div total_shares
  IN IF total_shares = 0 THEN NoPosition
     ELSE [amount |-> total_shares, cost_basis |-> cost, last_sale_price |-> price]

\* the open orders for one security are filled in the order they were placed:
\* a limit order at its limit, a market order at the last price
RECURSIVE fill_orders(_, _, _, _)
fill_orders(p, orders, sid, market) ==
  IF orders = <<>> THEN p
  ELSE LET o == Head(orders)
           price == IF o.limit = NoLimit THEN market ELSE o.limit
       IN fill_orders(IF o.sid = sid THEN position_update(p, o.amount, price) ELSE p,
                      Tail(orders), sid, market)

(* -------------------------------- state -------------------------------- *)
VARIABLES
  variant,            \* which of the two source files runs
  pc,                 \* the handler that ran last
  closed_today,       \* close_positions has run today
  screener_output,    \* pipeline_output('stock_screener'): long/short streaks
  long_trader,        \* context.long_trader.securities
  short_trader,       \* context.short_trader.securities
  previous_day_risk,  \* RiskManager.previous_day_risk
  positions,          \* context.portfolio.positions (amount 0: not in the dict)
  pnl,                \* context.portfolio.pnl as last read
  cash,               \* context.portfolio.cash when open() last had a candidate
  data,               \* data.can_trade / data.history answers of this minute
  traded,             \* the can_trade argument passed to trade() this minute
  calls,              \* the trader methods called this minute, in order
  tick_orders,        \* the orders submitted this minute, in order
  open_orders,        \* the framework's open orders
  fn                  \* a call of a pure function: its argument and result

vars == <<variant, pc, closed_today, screener_output, long_trader,
          short_trader, previous_day_risk, positions, pnl, cash, data, traded,
          calls, tick_orders, open_orders, fn>>

\* no pure function is under evaluation
NoCall == [arg |-> <<>>, ret |-> <<>>, done |-> FALSE]

NoData == [s \in Securities |-> NoHistory]

\* the functions on Securities that take a value of C(s) at s
Choice(C(_)) ==
  {f \in [Securities -> UNION {C(s) : s \in Securities}] : \A s \in Securities : f[s] \in C(s)}

\* IntradayLevelsAlgorithm.initialize / RiskManager.__init__
Init ==
  /\ variant \in Variants
  /\ pc = "initialize"
  /\ closed_today = FALSE
  /\ screener_output = <<>>
  /\ long_trader = {}
  /\ short_trader = {}
  /\ previous_day_risk = 0
  /\ positions = [s \in Securities |-> NoPosition]
  /\ pnl = 0
  /\ cash = 0
  /\ data = NoData
  /\ traded = FALSE
  /\ calls = <<>>
  /\ tick_orders = <<>>
  /\ open_orders = <<>>
  /\ fn = NoCall

PnlChoice == IF variant = "quantopian" THEN PnlSamples ELSE {0}

\* before_trading_start: both traders are built as LongTrader
before_trading_start ==
  /\ pc = "initialize"
  /\ \E out \in ScreenerSamples, p \in PnlChoice :
       /\ screener_output' = out
       /\ long_trader' = {s \in DOMAIN out : out[s].long >= daily_trend_strength}
       /\ short_trader' = {s \in DOMAIN out : out[s].short >= daily_trend_strength}
       /\ pnl' = p
       /\ previous_day_risk' = IF variant = "quantopian" THEN p ELSE previous_day_risk
  /\ pc' = "before_trading_start"
  /\ closed_today' = FALSE
  /\ data' = NoData
  /\ traded' = FALSE
  /\ calls' = <<>>
  /\ tick_orders' = <<>>
  /\ open_orders' = <<>>
  /\ UNCHANGED <<variant, positions, cash, fn>>

\* handle_data: one minute of both traders
handle_data ==
  /\ pc \in {"before_trading_start", "handle_data", "close_positions", "fill"}
  /\ variant = "algo" => Len(open_orders) < MaxOpenOrders
  /\ \E p \in PnlChoice :
       LET ct == IF variant = "quantopian" THEN can_trade(p, previous_day_risk) ELSE TRUE
           \* the other variant also filters the securities it holds, and
           \* then skips them: an answer with no effect is not recorded
           queried(s) ==
             /\ s \in long_trader \cup short_trader
             /\ ct
             /\ s \notin Held(positions)
           LastC(s) == IF s \in Held(positions) THEN LastSamples ELSE {0}
           DataC(s) == IF queried(s) THEN HistorySamples ELSE {NoHistory}
           \* the cash is recorded in the minutes in which open() has a
           \* candidate to look at
           CashC == IF \E s \in Securities : queried(s)
                    THEN CashSamples(variant) ELSE {cash}
       IN \E c \in CashC, last \in Choice(LastC), h \in Choice(DataC) :
            LET pos == [s \in Securities |->
                          IF s \in Held(positions)
                          THEN [positions[s] EXCEPT !.last_sale_price = last[s]]
                          ELSE NoPosition]
                lt == LongTrader_trade(variant, "long_trader", ct, long_trader,
                                       pos, h, c, iteration)
                st == LongTrader_trade(variant, "short_trader", ct, short_trader,
                                       pos, h, c, iteration)
            IN /\ positions' = pos
               /\ pnl' = p
               /\ cash' = c
               /\ data' = h
               /\ traded' = ct
               /\ calls' = lt.calls \o st.calls
               /\ tick_orders' = lt.orders \o st.orders
               /\ open_orders' = (IF variant = "quantopian" THEN <<>> ELSE open_orders)
                                   \o lt.orders \o st.orders
  /\ pc' = "handle_data"
  /\ UNCHANGED <<variant, closed_today, screener_output, long_trader,
                 short_trader, previous_day_risk, fn>>

\* close_positions: scheduled 30 minutes before the close, after that
\* minute's handle_data
close_positions ==
  /\ pc = "handle_data"
  /\ ~closed_today
  /\ LET placed == close_positions_orders(positions, iteration)
     IN /\ tick_orders' = tick_orders \o placed
        /\ open_orders' = open_orders \o placed
  /\ pc' = "close_positions"
  /\ closed_today' = TRUE
  /\ UNCHANGED <<variant, screener_output, long_trader, short_trader,
                 previous_day_risk, positions, pnl, cash, data, traded, calls,
                 fn>>

\* the framework fills the open orders of one security before the next minute
fill ==
  /\ pc \in {"handle_data", "close_positions", "fill"}
  /\ \E sid \in Securities :
       /\ \E i \in 1..Len(open_orders) : open_orders[i].sid = sid
       /\ positions' = [positions EXCEPT
                          ![sid] = fill_orders(positions[sid], open_orders, sid,
                                               positions[sid].last_sale_price)]
       /\ open_orders' = SelectSeq(open_orders, LAMBDA o : o.sid # sid)
  /\ pc' = "fill"
  /\ UNCHANGED <<variant, closed_today, screener_output, long_trader,
                 short_trader, previous_day_risk, pnl, cash, data, traded, calls,
                 tick_orders, fn>>

Next == before_trading_start \/ handle_data \/ close_positions \/ fill

Spec == Init /\ [][Next]_vars

(* ------------------------------ TrendFactor ---------------------------- *)
\* the program state while a pure function is evaluated on its own
program == <<variant, pc, closed_today, screener_output, long_trader,
             short_trader, previous_day_risk, positions, pnl, cash, data,
             traded, calls, tick_orders, open_orders>>

Idle ==
  /\ variant = "quantopian"
  /\ pc = "initialize"
  /\ closed_today = FALSE
  /\ screener_output = <<>>
  /\ long_trader = {}
  /\ short_trader = {}
  /\ previous_day_risk = 0
  /\ positions = [s \in Securities |-> NoPosition]
  /\ pnl = 0
  /\ cash = 0
  /\ data = NoData
  /\ traded = FALSE
  /\ calls = <<>>
  /\ tick_orders = <<>>
  /\ open_orders = <<>>

\* numpy.greater_equal / numpy.less_equal: FALSE when an operand is NaN
greater_equal(a, b) == a # NaN /\ b # NaN /\ a >= b
less_equal(a, b) == a # NaN /\ b # NaN /\ a <= b
nan_to_num(x) == IF x = NaN THEN 0 ELSE x

\* variant of one pass that counts only a strict rise or fall
TrendFactor_pass_strict(out, high, low, i) ==
  LET up_trend == greater_equal(low[Len(low) - i + 1], low[Len(low) - i] + 1)
      down_trend == less_equal(high[Len(high) - i + 1], high[Len(high) - i] - 1)
  IN [long |-> IF up_trend THEN out.long + 1 ELSE 0,
      short |-> IF down_trend THEN out.short + 1 ELSE 0]

\* one pass of the while loop of TrendFactor.compute for one asset; low[-i] of
\* a window of n bars is bar n - i + 1 counted from 1
TrendFactor_pass(out, high, low, i) ==
  LET up_trend == greater_equal(low[Len(low) - i + 1], low[Len(low) - i])
      down_trend == less_equal(high[Len(high) - i + 1], high[Len(high) - i])
  IN [long |-> IF up_trend THEN out.long + 1 ELSE 0,
      short |-> IF down_trend THEN out.short + 1 ELSE 0]

RECURSIVE TrendFactor_loop(_, _, _, _)
TrendFactor_loop(out, high, low, i) ==
  IF i > 0 THEN TrendFactor_loop(TrendFactor_pass(out, high, low, i), high, low, i - 1)
  ELSE out

\* TrendFactor.compute for one asset (one column of out, high, low)
TrendFactor_compute(out, high, low) ==
  TrendFactor_loop([long |-> nan_to_num(out.long), short |-> nan_to_num(out.short)],
                   high, low, window_length - 1)

\* windows of window_length daily bars: a ramp that moves one cent a day with
\* the trend, except on at most MaxBreaks marked days, where the bar is flat,
\* moves one cent against the trend, or is missing (NaN)
Moves == {"flat", "against", "nan"}
Marks == [at : 1..window_length, move : Moves]
RECURSIVE MarkSets(_)
MarkSets(n) ==
  IF n = 0 THEN {{}}
  ELSE LET less == MarkSets(n - 1)
       IN less \cup UNION {{M \cup {m} : m \in {x \in Marks : \A y \in M : y.at # x.at}}
                             : M \in less}

MoveAt(M, k) ==
  IF \E m \in M : m.at = k THEN (CHOOSE m \in M : m.at = k).move ELSE "with"

\* the price of bar k: one cent a day with the trend, none on a flat day, one
\* cent back on a day against the trend
Level(M, start, dir, k) ==
  start + dir * (k - Cardinality({m \in M : m.at <= k /\ m.move = "flat"})
                   - 2 * Cardinality({m \in M : m.at <= k /\ m.move = "against"}))

Window(M, start, dir) ==
  [k \in 1..window_length |->
     IF MoveAt(M, k) = "nan" THEN NaN ELSE Level(M, start, dir, k)]

\* the marked days are in the low bars or in the high bars
TrendInputs(n) ==
  {[low |-> Window(M, 1000, 1), high |-> Window({}, 2000, -1)] : M \in MarkSets(n)}
  \cup
  {[low |-> Window({}, 1000, 1), high |-> Window(M, 2000, -1)] : M \in MarkSets(n)}

\* the output columns arrive filled with the missing value
InitTrend ==
  /\ Idle
  /\ fn \in {[arg |-> a, ret |-> Streaks(NaN, NaN), done |-> FALSE] :
               a \in TrendInputs(MaxBreaks)}

compute ==
  /\ ~fn.done
  /\ fn' = [fn EXCEPT !.ret = TrendFactor_compute(fn.ret, fn.arg.high, fn.arg.low),
                      !.done = TRUE]
  /\ UNCHANGED program

NextTrend == compute

SpecTrend == InitTrend /\ [][NextTrend]_vars

(* ----------------------- filter_securities alone ----------------------- *)
history_high(h, bars) == SubSeq(h.high, Len(h.high) - bars + 1, Len(h.high))

\* the body of the loop of ShortTrader.filter_securities for one security.
\* `100 - 100 * max_price % 25` is 100 - ((100 * max_price) % 25), and
\* difference_to_minimum holds price - max_price, in cents
ShortTrader_filter_one(h) ==
  IF ~h.can_trade THEN FALSE
  ELSE LET data_history_fast == history_high(h, intraday_trend_fast)
           data_history_slow == history_high(h, intraday_trend_slow)
       IN IF isnan_any(data_history_fast) \/ isnan_any(data_history_fast) THEN FALSE
          ELSE IF mean_lt(data_history_slow, data_history_fast) THEN FALSE
          ELSE LET max_price == SeqMax(data_history_fast)
                   cents_to_level == 100 - (max_price % 25)
                   difference_to_minimum ==
                     [i \in 1..Len(data_history_fast) |-> data_history_fast[i] - max_price]
               IN IF cents_to_level > intraday_cents_to_level THEN FALSE
                  ELSE IF 100 - SeqMax(difference_to_minimum) > intraday_cents_to_level
                       THEN FALSE
                       ELSE TRUE

\* 30 one-minute bars around the 10.00 level: 20 older bars at one price, then
\* 9 bars at a second price and the newest bar at a third; the same bars are
\* answered for "low" and for "high"
FilterPrices == (1000 - MaxCents)..(1000 + MaxCents)
FilterWindows ==
  {Bars(20, old) \o Bars(9, base) \o <<newest>> :
     old \in FilterPrices \cup {NaN}, base \in FilterPrices,
     newest \in FilterPrices \cup {NaN}}
FilterInputs ==
  {[can_trade |-> t, low |-> w, high |-> w] : t \in BOOLEAN, w \in FilterWindows}

InitFilter ==
  /\ Idle
  /\ fn \in {[arg |-> a, ret |-> [long |-> FALSE, short |-> FALSE], done |-> FALSE] :
               a \in FilterInputs}

\* LongTrader.filter_securities and ShortTrader.filter_securities on a list of
\* one security: whether the result holds it
filter_securities ==
  /\ ~fn.done
  /\ fn' = [fn EXCEPT !.ret = [long |-> LongTrader_filter_one(fn.arg),
                               short |-> ShortTrader_filter_one(fn.arg)],
                      !.done = TRUE]
  /\ UNCHANGED program

NextFilter == filter_securities

SpecFilter == InitFilter /\ [][NextFilter]_vars

(* ------------------------------ properties ----------------------------- *)
Traders == {"long_trader", "short_trader"}
Ticked == pc = "handle_data"
Orders(kind) == {i \in 1..Len(tick_orders) : tick_orders[i].kind = kind}
Calls(by, method) ==
  {i \in 1..Len(calls) : calls[i].by = by /\ calls[i].method = method}
CloseOrdered(s) ==
  \E i \in Orders("close") : tick_orders[i].sid = s /\ tick_orders[i].target = 0
long_due(p) ==
  p.last_sale_price <= p.cost_basis - stop_size
    \/ p.last_sale_price >= p.cost_basis + target_profit
short_due(p) ==
  p.last_sale_price >= p.cost_basis + stop_size
    \/ p.last_sale_price <= p.cost_basis - target_profit

\* C1 as stated: in every minute, each trader's close() is called before its
\* open(), and its close orders are submitted before its entry orders.
C1_CloseBeforeOpen ==
  Ticked =>
    \A by \in Traders :
      /\ \A i \in Calls(by, "open"), j \in Calls(by, "close") : j < i
      /\ \A i \in Orders("open"), j \in Orders("close") :
           tick_orders[i].by = by /\ tick_orders[j].by = by => j < i

\* C1 amended: in every minute each trader's trade() calls close() exactly
\* once, as its last call; when it opens at all, open() runs before close(),
\* and the trader's entry orders are submitted before its close orders.
C1_OpenBeforeClose ==
  Ticked =>
    \A by \in Traders :
      /\ Cardinality(Calls(by, "close")) = 1
      /\ \A i \in Calls(by, "open"), j \in Calls(by, "close") : i < j
      /\ \A i \in Orders("open"), j \in Orders("close") :
           tick_orders[i].by = by /\ tick_orders[j].by = by => i < j

\* a minute in which one trader submitted an entry order and then a close order
C1_Witness ==
  /\ Ticked
  /\ \E i \in Orders("open"), j \in Orders("close") :
       tick_orders[i].by = tick_orders[j].by /\ i < j

\* C2: every entry order that buys is for a long candidate of the day (long
\* streak >= daily_trend_strength) that passes the long level filter and has
\* no position, to +position_amount at min(10-bar low window) + cents_to_market.
C2_BuyOnlyLongCandidates ==
  Ticked =>
    \A i \in Orders("open") :
      LET o == tick_orders[i] IN
        o.amount > 0 =>
          /\ o.sid \in DOMAIN screener_output
          /\ screener_output[o.sid].long >= daily_trend_strength
          /\ LongTrader_filter_one(data[o.sid])
          /\ positions[o.sid].amount = 0
          /\ o.target = position_amount(variant)
          /\ o.limit = SeqMin(history(data[o.sid], intraday_trend_fast)) + cents_to_market

\* C3: the entry orders of the short side (context.short_trader) are limit
\* sell orders to -position_amount shares.
C3_ShortCandidateSells ==
  Ticked =>
    \A i \in Orders("open") :
      tick_orders[i].by = "short_trader" =>
        /\ tick_orders[i].target = -position_amount(variant)
        /\ tick_orders[i].amount < 0

\* C4: in every minute, a position with a positive share count gets a close
\* order (order_target to 0) if and only if last_sale_price <= cost_basis -
\* stop_size or last_sale_price >= cost_basis + target_profit.
C4_LongClose ==
  Ticked =>
    \A s \in Securities :
      positions[s].amount > 0 => (CloseOrdered(s) <=> long_due(positions[s]))

\* a long position stopped out at exactly cost_basis - stop_size
C4_Witness ==
  /\ Ticked
  /\ \E s \in Securities :
       /\ positions[s].amount > 0
       /\ positions[s].last_sale_price = positions[s].cost_basis - stop_size
       /\ CloseOrdered(s)

\* C5: in every minute, a position with a negative share count gets a close
\* order when last_sale_price >= cost_basis + stop_size or last_sale_price <=
\* cost_basis - target_profit.
C5_ShortClose ==
  Ticked =>
    \A s \in Securities :
      positions[s].amount < 0 /\ short_due(positions[s]) => CloseOrdered(s)

\* C6: close_positions submits order_target(sid, 0) for every position of the
\* portfolio, long or short, whatever its price and whatever the risk state.
C6_FlattenAll ==
  pc = "close_positions" =>
    \A s \in Held(positions) :
      \E i \in Orders("close") :
        /\ tick_orders[i].by = "close_positions"
        /\ tick_orders[i].sid = s
        /\ tick_orders[i].target = 0
        /\ tick_orders[i].amount = -positions[s].amount

\* close_positions ran while a long position was strictly inside its band
C6_Witness ==
  /\ pc = "close_positions"
  /\ \E s \in Securities :
       /\ positions[s].amount > 0
       /\ ~long_due(positions[s])
       /\ \E i \in Orders("close") :
            tick_orders[i].by = "close_positions" /\ tick_orders[i].sid = s

\* C7: previous_day_risk is the portfolio P&L read by before_trading_start, no
\* minute changes it, and in every minute trading is halted if and only if
\* pnl - previous_day_risk <= -daily_risk.
C7_RiskThreshold ==
  /\ [](variant = "quantopian" =>
          /\ pc = "before_trading_start" => previous_day_risk = pnl
          /\ Ticked => (~traded <=> pnl - previous_day_risk <= -daily_risk))
  /\ [][pc' = "handle_data" => previous_day_risk' = previous_day_risk]_vars

\* a halted minute
C7_Witness ==
  /\ Ticked
  /\ variant = "quantopian"
  /\ ~traded
  /\ pnl - previous_day_risk = -daily_risk

\* C8: in a halted minute no entry order is submitted and the level filter is
\* not called, and every position whose stop or target is reached still gets
\* its close order.
C8_HaltedTick ==
  Ticked /\ variant = "quantopian" /\ ~traded =>
    /\ Orders("open") = {}
    /\ \A by \in Traders : Calls(by, "filter_securities") = {}
    /\ \A s \in Securities :
         /\ positions[s].amount > 0 /\ long_due(positions[s]) => CloseOrdered(s)
         /\ positions[s].amount < 0 /\ short_due(positions[s]) => CloseOrdered(s)

\* C9: in both variants, no entry order is submitted whose limit price times
\* its share count exceeds the portfolio's cash.
C9_CashSkip ==
  Ticked =>
    \A i \in Orders("open") :
      ~(tick_orders[i].limit * position_amount(variant) > cash)

\* C10: a security with a NaN anywhere in its 30-bar history (which contains
\* the 10-bar window) is not in the filter's result and gets no entry order.
C10_NaNSkipped ==
  Ticked =>
    \A s \in Securities :
      data[s].can_trade /\ isnan_any(history(data[s], intraday_trend_slow)) =>
        /\ ~LongTrader_filter_one(data[s])
        /\ \A i \in Orders("open") : tick_orders[i].sid # s

\* C11: TrendFactor.compute ends with long counting the consecutive newest
\* pairs with low[k] >= low[k-1] and short those with high[k] <= high[k-1];
\* both lie in 0..window_length-1, and a strictly rising low gives
\* window_length-1
long_streak(low) ==
  CHOOSE n \in 0..(window_length - 1) :
    /\ \A k \in (window_length - n + 1)..window_length : greater_equal(low[k], low[k - 1])
    /\ n < window_length - 1 =>
         ~greater_equal(low[window_length - n], low[window_length - n - 1])
short_streak(high) ==
  CHOOSE n \in 0..(window_length - 1) :
    /\ \A k \in (window_length - n + 1)..window_length : less_equal(high[k], high[k - 1])
    /\ n < window_length - 1 =>
         ~less_equal(high[window_length - n], high[window_length - n - 1])
StrictlyRising(q) == \A k \in 2..Len(q) : q[k - 1] # NaN /\ q[k] # NaN /\ q[k] > q[k - 1]
C11_TrendStreaks ==
  fn.done =>
    /\ fn.ret.long = long_streak(fn.arg.low)
    /\ fn.ret.short = short_streak(fn.arg.high)
    /\ fn.ret.long \in 0..(window_length - 1)
    /\ fn.ret.short \in 0..(window_length - 1)
    /\ StrictlyRising(fn.arg.low) => fn.ret.long = 14
C11_Witness ==
  /\ fn.done
  /\ StrictlyRising(fn.arg.low)
  /\ fn.ret.long = 14
  /\ fn.arg.high[window_length] = fn.arg.high[window_length - 1]
  /\ fn.arg.high[5] > fn.arg.high[4]
  /\ fn.ret.short = 10

\* C12: for the long-side and for the short-side filter, a tradable security
\* whose 10-bar window is one price on a 25-cent level passes, and one whose
\* extreme (long: minimum, short: maximum) is 3 cents from the nearest level
\* fails
OnLevel(q) == q[1] # NaN /\ q[1] % 25 = 0 /\ \A i \in 1..Len(q) : q[i] = q[1]
OffLevel(x) == x % 25 = 3 \/ x % 25 = 22
C12_LevelProperty ==
  fn.done /\ fn.arg.can_trade =>
    LET low == history(fn.arg, intraday_trend_fast)
        high == history_high(fn.arg, intraday_trend_fast)
    IN /\ OnLevel(low) => fn.ret.long
       /\ OnLevel(high) => fn.ret.short
       /\ ~isnan_any(low) /\ OffLevel(SeqMin(low)) => ~fn.ret.long
       /\ ~isnan_any(high) /\ OffLevel(SeqMax(high)) => ~fn.ret.short

TickOrdersFor(s) == {i \in 1..Len(tick_orders) : tick_orders[i].sid = s}
C14_OneOrderPerSecurity ==
  Ticked => \A s \in Securities : Cardinality(TickOrdersFor(s)) <= 1

\* C15: once close_positions has run, no later tick of that day submits an
\* order that opens a position
C15_NoEntryAfterClosePositions ==
  closed_today /\ Ticked => Orders("open") = {}

====
